---- MODULE Spec2Model ----
(***************************************************************************)
(* Process tracer orchestrator of beyla (pkg/internal/ebpf): loading of    *)
(* the program bundles under the process-wide load lock with the           *)
(* missing-helper fallback, the Go tracer's choice of artifact and probe   *)
(* table, the utility tracer, and the per-executable lifecycle             *)
(* NewExecutable / NewExecutableInstance / UnlinkExecutable / Run.         *)
(***************************************************************************)
EXTENDS Integers, Sequences, FiniteSets, TLC

\* ---------------------------------------------------------------- bounds
NumTracers == 2
NumBundles == 2
NumInodes == 2
NumModules == 1
MaxAttach == 1
MaxInstr == 2
MaxHandles == 3
NumProcs == 2
MaxAbsent == 2
MaxEvents == 3
BatchLength == 2
ChanCap == 1

Tracers == 1..NumTracers
Bundles == 1..NumBundles
Inodes == 1..NumInodes
Modules == 1..NumModules
Handles == 1..MaxHandles
Procs == 1..NumProcs

\* The ProcessTracer under observation: the calls of its Init are recorded and
\* its executables are followed; the other tracers run the same Init beside it.
PT == CHOOSE t \in Tracers : \A u \in Tracers : t <= u

\* The process the tracers 1..NumTracers live in; the other processes are
\* further instances of the orchestrator on the same host.
ThisProcess == CHOOSE o \in Procs : \A q \in Procs : o <= q

\* ------------------------------------------------------------- variables
VARIABLES
    osPid,                 \* per process: its process identifier
    cfgEBPF,               \* per process: cfg.EBPF.BpfBaseDir and cfg.EBPF.BpfPath
    built,                 \* the processes that have called NewProcessTracer
    PinPath,               \* per process: the PinPath of its ProcessTracer
    pinLog,                \* per bundle of PT: the PinPath of each LoadAndAssign
    Field,                 \* offsets.Field of the Offset Provider: key -> offset
    consts,                \* the map Constants returned to loadSpec
    cpc,                   \* position of the loadSpec call that uses Field
    ctx,                   \* the context passed to Run: "live" or "cancelled"
    pumpCtx,               \* the context Run handed to the pumps, "none" before
    pump,                  \* per bundle: position of its Event Pump task
    ring,                  \* per bundle: its ring buffer, the pids of the events
    batch,                 \* per bundle: the batch its pump is filling
    outCh,                 \* the out-channel: the batches enqueued, not yet taken
    sent,                  \* number of batches enqueued on the channel so far
    sentAtCancel,          \* the value of sent when the context was cancelled
    allow,                 \* the allow-set of the PID filter
    nEvents,               \* number of events the kernel programs wrote so far
    dropped,               \* of the events the filter dropped: whether their
                           \* pid was in the allow-set at that moment
    IntegrityModeOverride, \* ebpfcommon.IntegrityModeOverride, process-wide
    BpfDebug,              \* cfg.BpfDebug
    SupportsContextPropagation, \* ebpfcommon.SupportsContextPropagation(log)
    loadMux,               \* 0 when free, else the tracer inside loadTracers
    pc,                    \* per tracer: position of Init
    idx,                   \* per tracer: index in Programs of the next bundle
    loadCalls,             \* per bundle of PT: the calls of loadSpec
    assignLog,             \* per bundle of PT: the verdicts of LoadAndAssign
    postLoad,              \* per bundle of PT: the calls made after the load
    utilPc,                \* position of RunUtilityTracer
    utilLog,               \* calls made by RunUtilityTracer
    log,                   \* pt.log: "nil" until Run assigns it
    crashed,               \* a panic has ended the process
    Instrumentables,       \* pt.Instrumentables: inode -> instrumenter, 0: no key
    instr,                 \* the instrumenters made by NewExecutable, in order
    nHandles,              \* number of attachment handles made so far
    closeCount,            \* per handle: the number of Close calls on it
    unlinkCalls,           \* per bundle, module: calls of UnlinkInstrumentedLib
    libs,                  \* per bundle: the modules it holds as instrumented
    modAttach,             \* per bundle, module: attachments of the module made
                           \* since the bundle was last told to unlink it
    goTable,               \* the table of the Go tracer's last GoProbes() call
    last                   \* the last call on PT and what it did

cfgVars == <<BpfDebug, SupportsContextPropagation>>
loadVars == <<IntegrityModeOverride, cfgVars, loadMux, pc, idx, loadCalls,
              assignLog, postLoad, pinLog>>
pinVars == <<osPid, cfgEBPF, built, PinPath>>
constVars == <<Field, consts, cpc>>
pumpVars == <<ctx, pumpCtx, pump, ring, batch, outCh, sent, allow, nEvents,
              dropped, sentAtCancel>>
sideVars == <<pinVars, constVars, pumpVars>>
utilVars == <<utilPc, utilLog>>
execVars == <<log, crashed, Instrumentables, instr, nHandles, closeCount,
              unlinkCalls, libs, modAttach, goTable, last>>

\* ------------------------------------------------------------ Go tracer
\* A variant that leaves the flag out of the answer.
supportsContextPropagationNoVeto(override, kernelSupports) ==
    kernelSupports

\* Tracer.supportsContextPropagation: the flag vetoes the kernel's answer.
supportsContextPropagation(override, kernelSupports) ==
    (~override) /\ kernelSupports

\* Tracer.Load: the loader chosen from cfg.BpfDebug and context propagation.
Load(debug, override, kernelSupports) ==
    IF supportsContextPropagation(override, kernelSupports)
    THEN IF debug THEN "bpf_tp_debug" ELSE "bpf_tp"
    ELSE IF debug THEN "bpf_debug" ELSE "bpf"

Artifacts == {"bpf", "bpf_debug", "bpf_tp", "bpf_tp_debug"}
TpArtifacts == {"bpf_tp", "bpf_tp_debug"}


\* ------------------------------------------------------------- constants
\* The keys Tracer.Constants copies as they are.
RequiredKeys ==
    {"url_ptr_pos", "path_ptr_pos", "method_ptr_pos", "status_code_ptr_pos",
     "content_length_ptr_pos", "req_header_ptr_pos", "io_writer_buf_ptr_pos",
     "io_writer_n_pos", "tcp_addr_port_ptr_pos", "tcp_addr_ip_ptr_pos",
     "pc_conn_pos", "pc_tls_pos", "c_rwc_pos", "c_tls_pos", "net_conn_pos",
     "conn_fd_pos", "fd_laddr_pos", "fd_raddr_pos"}

\* The keys of the optional list.
OptionalKeys ==
    {"cc_next_stream_id_pos", "framer_w_pos", "cc_tconn_pos", "sc_conn_pos",
     "grpc_stream_st_ptr_pos", "grpc_stream_method_ptr_pos", "grpc_status_s_pos",
     "grpc_status_code_ptr_pos", "grpc_st_conn_pos", "grpc_stream_ctx_ptr_pos",
     "grpc_t_conn_pos", "grpc_t_scheme_pos", "value_context_val_ptr_pos",
     "http2_client_next_id_pos", "grpc_transport_buf_writer_buf_pos",
     "grpc_transport_buf_writer_offset_pos"}

OffsetKeys == RequiredKeys \cup OptionalKeys

\* A 64-bit unsigned value as its four 16-bit words, the highest first.
Word64(n) == <<0, 0, n \div 65536, n % 65536>>

\* uint64(0xffffffffffffffff).
Sentinel == <<65535, 65535, 65535, 65535>>

\* The nil interface value a Go map lookup gives for a key it does not hold.
Nil == <<>>

\* offsets.Field[s].
Lookup(field, s) == IF s \in DOMAIN field THEN field[s] ELSE Nil

\* A variant without the substitution for the keys of the optional list.
ConstantsWithoutSentinel(field, wakeup) ==
    [s \in {"wakeup_data_bytes"} \cup OffsetKeys |->
        IF s = "wakeup_data_bytes" THEN wakeup ELSE Lookup(field, s)]

\* Tracer.Constants: wakeup_data_bytes, the keys of the first list as the
\* provider gave them, the keys of the optional list with the all-ones
\* value in the place of nil.  wakeup is the product
\* uint32(cfg.WakeupLen) * uint32(unsafe.Sizeof(HTTPRequestTrace{})).
Constants(field, wakeup) ==
    [s \in {"wakeup_data_bytes"} \cup OffsetKeys |->
        IF s = "wakeup_data_bytes" THEN wakeup
        ELSE IF s \in RequiredKeys THEN Lookup(field, s)
        ELSE IF Lookup(field, s) = Nil THEN Sentinel ELSE Lookup(field, s)]

\* spec.RewriteConstants(constants) cannot write a nil value: it returns
\* an error; with every value set it may still fail.
CanRewrite(constants) == \A s \in DOMAIN constants : constants[s] # Nil

\* The sets of at most n keys.
RECURSIVE KeySets(_)
KeySets(n) ==
    IF n = 0
    THEN {{}}
    ELSE LET smaller == KeySets(n - 1)
         IN  smaller \cup {a \cup {s} : a \in smaller, s \in OffsetKeys}

\* The offsets a provider gives: all keys but at most MaxAbsent of them.
OffsetValues == {Word64(16), Word64(72)}
FieldInputs ==
    {[s \in OffsetKeys \ absent |-> v] : absent \in KeySets(MaxAbsent), v \in OffsetValues}

WakeupValues == {<<0, 0>>, <<0, 4096>>}

\* loadSpec on the Go tracer: p.Load(), then RewriteConstants on the map of
\* p.Constants().
loadSpecConstants ==
    /\ cpc = "start"
    /\ \E loaded \in BOOLEAN, rewritten \in BOOLEAN, wakeup \in WakeupValues :
          IF ~loaded
          THEN /\ cpc' = "spec"
               /\ consts' = consts
          ELSE /\ consts' = Constants(Field, wakeup)
               /\ cpc' = IF CanRewrite(consts') /\ rewritten THEN "ok" ELSE "rewrite"
    /\ UNCHANGED Field
    /\ UNCHANGED <<loadVars, utilVars, execVars, pinVars, pumpVars>>

\* ------------------------------------------------------------- pin path
\* A path is the sequence of its elements.  path.Join puts the elements of
\* its arguments one after the other; an empty argument adds nothing.
Join(a, b) == a \o b

\* BuildPinPath: path.Join(cfg.EBPF.BpfBaseDir, cfg.EBPF.BpfPath).  pid is
\* the identifier of the calling process, which the function does not read.
BuildPinPath(cfg, pid) ==
    Join(cfg.BpfBaseDir, cfg.BpfPath)

\* The values of cfg.EBPF.BpfBaseDir and cfg.EBPF.BpfPath tried.
BaseDirs == {<<"var", "run", "beyla">>}
BpfPaths == {<<>>, <<"beyla">>}
Configs == [BpfBaseDir : BaseDirs, BpfPath : BpfPaths]

\* The process identifiers of the host: no two processes share one.
Pids == 100..(99 + NumProcs)
PidAssignments ==
    {f \in [Procs -> Pids] : \A o, q \in Procs : o # q => f[o] # f[q]}

\* NewProcessTracer in process o: PinPath: BuildPinPath(cfg).
NewProcessTracer(o) ==
    /\ o \notin built
    /\ built' = built \cup {o}
    /\ PinPath' = [PinPath EXCEPT ![o] = BuildPinPath(cfgEBPF[o], osPid[o])]
    /\ UNCHANGED <<osPid, cfgEBPF>>
    /\ UNCHANGED <<loadVars, utilVars, execVars, constVars, pumpVars>>

\* ------------------------------------------------------------ loadSpec
\* Outcomes of loadSpec: "ok", Load failed ("spec"), RewriteConstants failed.
LoadSpecResults == {"ok", "spec", "rewrite"}

\* Verdicts of LoadAndAssign: success, an error whose text contains
\* "unknown func bpf_probe_write_user", any other error.
Verdicts == {"ok", "missing", "other"}

\* A variant that attaches the kprobes before the two setup calls.
PostLoadStepsSetupLate ==
    <<"kprobes", "SetupTailCalls", "SetupTC", "tracepoints", "sockfilters">>

\* A variant that attaches the tracepoints before the kprobes.
PostLoadStepsTracepointsFirst ==
    <<"SetupTailCalls", "SetupTC", "tracepoints", "kprobes", "sockfilters">>

\* Steps made for a bundle once it is loaded, in the order of the code.
PostLoadSteps == <<"SetupTailCalls", "SetupTC", "kprobes", "tracepoints", "sockfilters">>

\* SetupTailCalls and SetupTC return nothing; the three attachments after
\* them each return an error on which loadTracers returns.
CanFail == {j \in DOMAIN PostLoadSteps :
               PostLoadSteps[j] \in {"kprobes", "tracepoints", "sockfilters"}}

\* ProcessTracer.loadSpec: p.Load() under the current flag, then
\* RewriteConstants; the record keeps the flag the call ran with.
loadSpec(override, res) ==
    [flag |-> override,
     art |-> Load(BpfDebug, override, SupportsContextPropagation),
     res |-> res]

\* The body of the loop of loadTracers for one bundle: first attempt, the
\* fallback, then setup and the global attachments.  in.failAt is the
\* position in PostLoadSteps of the step that fails (0: none fails);
\* fallbackFlag is the value the fallback gives the flag before it retries.
loadWith(override, in, fallbackFlag) ==
    LET call1 == loadSpec(override, in.r1)
        call2 == loadSpec(fallbackFlag, in.r2)
        steps == SubSeq(PostLoadSteps, 1,
                        IF in.failAt = 0 THEN Len(PostLoadSteps) ELSE in.failAt)
    IN  IF in.r1 # "ok"
        THEN [calls |-> <<call1>>, verdicts |-> <<>>, flag |-> override,
              steps |-> <<>>, err |-> TRUE]
        ELSE IF in.v1 = "ok"
        THEN [calls |-> <<call1>>, verdicts |-> <<"ok">>, flag |-> override,
              steps |-> steps, err |-> in.failAt # 0]
        ELSE IF in.v1 = "missing"
        THEN IF in.r2 # "ok"
             THEN [calls |-> <<call1, call2>>, verdicts |-> <<"missing">>,
                   flag |-> fallbackFlag, steps |-> <<>>, err |-> TRUE]
             ELSE IF in.v2 = "ok"
             THEN [calls |-> <<call1, call2>>, verdicts |-> <<"missing", "ok">>,
                   flag |-> fallbackFlag, steps |-> steps, err |-> in.failAt # 0]
             ELSE [calls |-> <<call1, call2>>, verdicts |-> <<"missing", in.v2>>,
                   flag |-> fallbackFlag, steps |-> <<>>, err |-> TRUE]
        ELSE [calls |-> <<call1>>, verdicts |-> <<"other">>, flag |-> override,
              steps |-> <<>>, err |-> TRUE]

\* A variant whose fallback retries without setting the flag.
loadOneBundleKeepsFlag(override, in) ==
    loadWith(override, in, override)

\* A variant in which a load that succeeds at once clears the flag.
loadOneBundleClearsFlag(override, in) ==
    LET out == loadWith(override, in, TRUE)
    IN  IF in.r1 = "ok" /\ in.v1 = "ok" THEN [out EXCEPT !.flag = FALSE] ELSE out

\* A variant that retries after any failure of LoadAndAssign.
loadOneBundleRetriesAny(override, in) ==
    LET out == loadWith(override,
                        [in EXCEPT !.v1 = IF @ = "other" THEN "missing" ELSE @], TRUE)
    IN  IF in.v1 = "other" THEN [out EXCEPT !.verdicts[1] = "other"] ELSE out

\* A variant that goes on to the next bundle whatever failed.
loadOneBundleIgnoresError(override, in) ==
    [loadWith(override, in, TRUE) EXCEPT !.err = FALSE]

\* loadTracers sets common.IntegrityModeOverride = true before the retry.
loadOneBundle(override, in) ==
    loadWith(override, in, TRUE)

\* The inputs of one iteration: the outcomes of the two loadSpec calls, the
\* two verdicts and the failing step.  An outcome the code never reaches on
\* a path is fixed to its first value, so that each path is drawn once.
Reached(in) ==
    /\ in.r1 # "ok" => in.v1 = "ok"
    /\ (in.r1 # "ok" \/ in.v1 # "missing") => in.r2 = "ok"
    /\ (in.r1 # "ok" \/ in.v1 # "missing" \/ in.r2 # "ok") => in.v2 = "ok"
    /\ (in.r1 # "ok" \/ in.v1 = "other" \/ in.r2 # "ok" \/ in.v2 # "ok") => in.failAt = 0

LoadInputs ==
    {in \in [r1 : LoadSpecResults, v1 : Verdicts,
             r2 : LoadSpecResults, v2 : Verdicts,
             failAt : {0} \cup CanFail] : Reached(in)}

\* ---------------------------------------------------------- loadTracers
\* A variant that keeps the lock when loadTracers returns an error.
UnlockUnlessError(t, err) == IF err THEN t ELSE 0

\* defer loadMux.Unlock(): the value of the lock after tracer t returns from
\* loadTracers, with an error or without.
Unlock(t, err) == 0

\* loadMux.Lock(): blocks until the lock is free.
InitLock(t) ==
    /\ ~crashed
    /\ ThisProcess \in built
    /\ pc[t] = "new"
    /\ loadMux = 0
    /\ loadMux' = t
    /\ pc' = [pc EXCEPT ![t] = "loading"]
    /\ UNCHANGED <<IntegrityModeOverride, cfgVars, idx, loadCalls, assignLog, postLoad,
                   pinLog>>
    /\ UNCHANGED <<utilVars, execVars, sideVars>>

\* One iteration of the loop over pt.Programs; an error returns from
\* loadTracers, and the deferred Unlock runs.
LoadBundle(t) ==
    /\ ~crashed
    /\ pc[t] = "loading"
    /\ idx[t] <= NumBundles
    /\ \E in \in LoadInputs :
          LET b == idx[t]
              out == loadOneBundle(IntegrityModeOverride, in)
          IN  /\ IntegrityModeOverride' = out.flag
              /\ loadCalls' = IF t = PT
                              THEN [loadCalls EXCEPT ![b] = @ \o out.calls]
                              ELSE loadCalls
              /\ assignLog' = IF t = PT
                              THEN [assignLog EXCEPT ![b] = @ \o out.verdicts]
                              ELSE assignLog
              /\ postLoad' = IF t = PT
                             THEN [postLoad EXCEPT ![b] = @ \o out.steps]
                             ELSE postLoad
              /\ pinLog' = IF t = PT
                           THEN [pinLog EXCEPT ![b] =
                                    @ \o [j \in DOMAIN out.verdicts |-> PinPath[ThisProcess]]]
                           ELSE pinLog
              /\ IF out.err
                 THEN /\ pc' = [pc EXCEPT ![t] = "failed"]
                      /\ loadMux' = Unlock(t, TRUE)
                      /\ idx' = idx
                 ELSE /\ pc' = pc
                      /\ loadMux' = loadMux
                      /\ idx' = [idx EXCEPT ![t] = b + 1]
    /\ UNCHANGED cfgVars
    /\ UNCHANGED <<utilVars, execVars, sideVars>>

\* All bundles loaded: btf.FlushKernelSpec(), return nil, deferred Unlock.
InitFinish(t) ==
    /\ ~crashed
    /\ pc[t] = "loading"
    /\ idx[t] = NumBundles + 1
    /\ loadMux' = Unlock(t, FALSE)
    /\ pc' = [pc EXCEPT ![t] = "ready"]
    /\ UNCHANGED <<IntegrityModeOverride, cfgVars, idx, loadCalls, assignLog, postLoad,
                   pinLog>>
    /\ UNCHANGED <<utilVars, execVars, sideVars>>

\* ------------------------------------------------------ RunUtilityTracer
\* p.Load() returned a spec and LoadAndAssign is entered, or Load failed.
UtilLoad ==
    /\ ~crashed
    /\ utilPc = "idle"
    /\ \E ok \in BOOLEAN :
          utilPc' = IF ok THEN "loading" ELSE "failed"
    /\ utilLog' = Append(utilLog, "Load")
    /\ UNCHANGED <<loadVars, execVars, sideVars>>

\* LoadAndAssign returns; a failure is returned at once, whatever its text.
UtilLoadAndAssign ==
    /\ ~crashed
    /\ utilPc = "loading"
    /\ \E v \in Verdicts :
          utilPc' = IF v = "ok" THEN "assigned" ELSE "failed"
    /\ utilLog' = Append(utilLog, "LoadAndAssign")
    /\ UNCHANGED <<loadVars, execVars, sideVars>>

\* kprobes, tracepoints, go p.Run, btf.FlushKernelSpec.
UtilAttach ==
    /\ ~crashed
    /\ utilPc = "assigned"
    /\ \E failAt \in 0..2 :
          /\ utilPc' = IF failAt = 0 THEN "done" ELSE "failed"
          /\ utilLog' = utilLog \o
                 (IF failAt = 1 THEN <<"kprobes">>
                  ELSE IF failAt = 2 THEN <<"kprobes", "tracepoints">>
                  ELSE <<"kprobes", "tracepoints", "Run", "FlushKernelSpec">>)
    /\ UNCHANGED <<loadVars, execVars, sideVars>>


\* ------------------------------------------------- Go tracer probe table
\* The symbols Tracer.GoProbes always puts in the table.
BaseGoProbes ==
    {"runtime.newproc1", "runtime.goexit1",
     "net/http.serverHandler.ServeHTTP", "net/http.(*conn).readRequest",
     "net/http.(*Transport).roundTrip",
     "golang.org/x/net/http2.(*ClientConn).roundTrip",
     "golang.org/x/net/http2.(*ClientConn).RoundTrip",
     "net/http.(*http2ClientConn).RoundTrip",
     "golang.org/x/net/http2.(*responseWriterState).writeHeader",
     "net/http.(*http2responseWriterState).writeHeader",
     "net/http.(*response).WriteHeader",
     "golang.org/x/net/http2.(*serverConn).runHandler",
     "net/http.(*http2serverConn).runHandler",
     "net/http.(*conn).serve", "net.(*netFD).Read",
     "net/http.(*persistConn).roundTrip",
     "database/sql.(*DB).queryDC", "database/sql.(*DB).execDC",
     "google.golang.org/grpc.(*Server).handleStream",
     "google.golang.org/grpc/internal/transport.(*http2Server).WriteStatus",
     "google.golang.org/grpc.(*ClientConn).Invoke",
     "google.golang.org/grpc.(*ClientConn).NewStream",
     "google.golang.org/grpc.(*ClientConn).Close",
     "google.golang.org/grpc.(*clientStream).RecvMsg",
     "google.golang.org/grpc.(*clientStream).CloseSend",
     "google.golang.org/grpc/internal/transport.(*http2Client).NewStream",
     "google.golang.org/grpc/internal/transport.(*http2Server).operateHeaders",
     "google.golang.org/grpc/internal/transport.(*serverHandlerTransport).HandleStreams"}

\* The symbols added only under context propagation.
ContextPropagationProbes ==
    {"net/http.Header.writeSubset",
     "golang.org/x/net/http2.(*Framer).WriteHeaders",
     "net/http.(*http2Framer).WriteHeaders"}

\* Tracer.GoProbes: the keys of the returned map.
GoProbes(override, kernelSupports) ==
    IF supportsContextPropagation(override, kernelSupports)
    THEN BaseGoProbes \cup ContextPropagationProbes
    ELSE BaseGoProbes

\* The last of pt.Programs is the Go tracer of gotracer.go; the bundles
\* before it are tracers of the other kinds, which carry a uprobe table and
\* no Go probes.
IsGoTracer(b) == b = NumBundles

\* A variant in which the Go tracer, too, declares a uprobe table.
EveryBundleHasUProbes(b) == TRUE

\* Tracer.UProbes of the Go tracer returns nil: it has no uprobe table.
HasUProbes(b) == ~IsGoTracer(b)

HasGoProbes(b) == IsGoTracer(b)

\* gotracer's Tracer.AlreadyInstrumentedLib: false, whatever the module.
GoAlreadyInstrumentedLib(recorded, m) == FALSE

\* gotracer's Tracer.RecordInstrumentedLib: an empty body.
GoRecordInstrumentedLib(recorded, m) == recorded

\* p.AlreadyInstrumentedLib(m) on bundle b: the bundles other than the Go
\* tracer answer from their record.
AlreadyInstrumentedLib(lb, b, m) ==
    IF IsGoTracer(b) THEN GoAlreadyInstrumentedLib(lb[b], m) ELSE m \in lb[b]

\* p.RecordInstrumentedLib(m) on bundle b.
RecordInstrumentedLib(lb, b, m) ==
    [lb EXCEPT ![b] = IF IsGoTracer(b) THEN GoRecordInstrumentedLib(@, m) ELSE @ \cup {m}]

\* p.UnlinkInstrumentedLib(m) on bundle b: the bundle forgets the module.
UnlinkInstrumentedLib(lb, b, m) ==
    [lb EXCEPT ![b] = @ \ {m}]

\* UnlinkInstrumentedLib of bundle b for every module of ms.
RECURSIVE UnlinkAll(_, _, _)
UnlinkAll(lb, b, ms) ==
    IF ms = {}
    THEN lb
    ELSE LET m == CHOOSE x \in ms : TRUE
         IN  UnlinkAll(UnlinkInstrumentedLib(lb, b, m), b, ms \ {m})

\* ---------------------------------------------------------- instrumenter
NoLib == 0
NoTable == [flag |-> FALSE, syms |-> {}]

\* The handles numbered after n: k new attachment handles.
NewHandles(n, k) == [j \in 1..k |-> n + j]

\* What a goprobes call meets: n handles attached, and whether it then fails.
\* A bundle without Go probes attaches nothing and cannot fail.
GoprobeInputs(b) ==
    IF HasGoProbes(b)
    THEN [n : 0..MaxAttach, ok : BOOLEAN]
    ELSE {[n |-> 0, ok |-> TRUE]}

\* What a uprobes call meets: the module the process maps (NoLib: none), n
\* handles attached, and whether it then fails.
UprobeInputs(b) ==
    IF HasUProbes(b)
    THEN [lib : {NoLib} \cup Modules, n : 0..MaxAttach, ok : BOOLEAN]
    ELSE {[lib |-> NoLib, n |-> 0, ok |-> TRUE]}

\* instrumenter.goprobes(p): every attachment made appends its handle to
\* closables; on an error the handles appended so far stay.  st is the
\* instrumenter being worked on, with the handle counter and the bundles'
\* module records.
goprobes(st, b, in) ==
    [st EXCEPT !.closables = @ \o NewHandles(st.n, in.n),
               !.n = @ + in.n,
               !.calls = Append(@, <<b, "goprobes">>),
               !.table = IF IsGoTracer(b)
                         THEN [flag |-> IntegrityModeOverride,
                               syms |-> GoProbes(IntegrityModeOverride,
                                                 SupportsContextPropagation)]
                         ELSE @,
               !.err = ~in.ok]

\* instrumenter.uprobes(pid, p): a module the bundle already holds is
\* skipped; otherwise the handles are appended and, on success, the module
\* is added to modules and recorded on the bundle.
uprobes(st, b, in) ==
    LET st1 == [st EXCEPT !.calls = Append(@, <<b, "uprobes">>)]
    IN  IF ~HasUProbes(b)
        THEN st1
        ELSE IF in.lib # NoLib /\ AlreadyInstrumentedLib(st.libs, b, in.lib)
        THEN [st1 EXCEPT !.skipped = @ \cup {in.lib}]
        ELSE IF ~in.ok
        THEN [st1 EXCEPT !.closables = @ \o NewHandles(st.n, in.n),
                         !.n = @ + in.n,
                         !.err = TRUE]
        ELSE [st1 EXCEPT !.closables = @ \o NewHandles(st.n, in.n),
                         !.n = @ + in.n,
                         !.modules = IF in.lib # NoLib THEN @ \cup {in.lib} ELSE @,
                         !.attach = IF in.lib # NoLib
                                    THEN [@ EXCEPT ![b][in.lib] = @ + 1]
                                    ELSE @,
                         !.libs = IF in.lib # NoLib
                                  THEN RecordInstrumentedLib(@, b, in.lib)
                                  ELSE @]

\* The outcomes of the loop of NewExecutable over pt.Programs from bundle b
\* on: goprobes, then uprobes, returning at the first error.  An outcome
\* that would need more than MaxHandles handles is left out.
RECURSIVE attachAll(_, _)
attachAll(st, b) ==
    IF st.n > MaxHandles
    THEN {}
    ELSE IF b > NumBundles
    THEN {st}
    ELSE UNION {LET g == goprobes(st, b, gin)
                IN  IF g.err \/ g.n > MaxHandles
                    THEN IF g.n > MaxHandles THEN {} ELSE {g}
                    ELSE UNION {LET u == uprobes(g, b, uin)
                                IN  IF u.err
                                    THEN IF u.n > MaxHandles THEN {} ELSE {u}
                                    ELSE attachAll(u, b + 1)
                                : uin \in UprobeInputs(b)}
                : gin \in GoprobeInputs(b)}

\* The outcomes of the loop of NewExecutableInstance: uprobes only.
RECURSIVE attachUprobes(_, _)
attachUprobes(st, b) ==
    IF st.n > MaxHandles
    THEN {}
    ELSE IF b > NumBundles
    THEN {st}
    ELSE UNION {LET u == uprobes(st, b, uin)
                IN  IF u.err
                    THEN IF u.n > MaxHandles THEN {} ELSE {u}
                    ELSE attachUprobes(u, b + 1)
                : uin \in UprobeInputs(b)}

\* The working state of an attachment loop on an instrumenter with the
\* given closables and modules.
Working(closables, modules) ==
    [closables |-> closables, modules |-> modules, n |-> nHandles,
     libs |-> libs, attach |-> modAttach, skipped |-> {}, table |-> goTable,
     calls |-> <<>>, err |-> FALSE]

\* The instrumenters made so far.
Made == DOMAIN instr

\* ------------------------------------------------------------ event pump
\* The pids the kernel programs report events of.
TracedPids == {42}

\* The context of the tasks Run starts: go t.Run(ctx, out).
PumpContextBackground == "background"

PumpContext == "ctx"

\* ctx.Done() as a pump sees it: its context is the one passed to Run, and
\* that one is cancelled.
Done == pumpCtx = "ctx" /\ ctx = "cancelled"

\* The filter lets every event through.
FilterAllowsAll(allowed, pid) == TRUE

\* The PID filter applied to one event: its pid is in the allow-set.
FilterAllows(allowed, pid) == pid \in allowed

\* An event of a batch: its pid, and whether the pid was in the allow-set
\* when the pump filtered the event.
Event(pid, allowed) == [pid |-> pid, allowed |-> allowed]

\* The caller of Run cancels the context.
Cancel ==
    /\ ctx = "live"
    /\ ctx' = "cancelled"
    /\ sentAtCancel' = sent
    /\ UNCHANGED <<pumpCtx, pump, ring, batch, outCh, sent, allow, nEvents,
                   dropped>>
    /\ UNCHANGED <<loadVars, utilVars, execVars, pinVars, constVars>>

\* Tracer.AllowPID: p.pidsFilter.AllowPID(pid, ns, svc, PIDTypeGo).
AllowPID(pid) ==
    /\ allow' = allow \cup {pid}
    /\ UNCHANGED <<ctx, pumpCtx, pump, ring, batch, outCh, sent, nEvents,
                   dropped, sentAtCancel>>
    /\ UNCHANGED <<loadVars, utilVars, execVars, pinVars, constVars>>

\* Tracer.BlockPID: p.pidsFilter.BlockPID(pid, ns).
BlockPID(pid) ==
    /\ allow' = allow \ {pid}
    /\ UNCHANGED <<ctx, pumpCtx, pump, ring, batch, outCh, sent, nEvents,
                   dropped, sentAtCancel>>
    /\ UNCHANGED <<loadVars, utilVars, execVars, pinVars, constVars>>

\* A loaded kernel program of bundle b writes an event of pid to its ring
\* buffer.
KernelEvent(b, pid) ==
    /\ pc[PT] = "ready"
    /\ nEvents < MaxEvents
    /\ nEvents' = nEvents + 1
    /\ ring' = [ring EXCEPT ![b] = Append(@, pid)]
    /\ UNCHANGED <<ctx, pumpCtx, pump, batch, outCh, sent, allow, dropped,
                   sentAtCancel>>
    /\ UNCHANGED <<loadVars, utilVars, execVars, pinVars, constVars>>

\* The pump of bundle b reads one event, filters it by the allow-set and, when
\* it passes, adds it to the current batch; a full batch goes to the channel.
PumpRead(b) ==
    /\ pump[b] = "reading"
    /\ ~Done
    /\ ring[b] # <<>>
    /\ LET pid == Head(ring[b])
           keep == FilterAllows(allow, pid)
           filled == IF keep THEN Append(batch[b], Event(pid, pid \in allow))
                             ELSE batch[b]
       IN  /\ ring' = [ring EXCEPT ![b] = Tail(@)]
           /\ batch' = [batch EXCEPT ![b] = filled]
           /\ dropped' = IF keep THEN dropped ELSE dropped \cup {pid \in allow}
           /\ pump' = [pump EXCEPT ![b] =
                          IF Len(filled) = BatchLength THEN "sending" ELSE "reading"]
    /\ UNCHANGED <<ctx, pumpCtx, outCh, sent, allow, nEvents, sentAtCancel>>
    /\ UNCHANGED <<loadVars, utilVars, execVars, pinVars, constVars>>

\* The pump of bundle b enqueues its batch: the channel has room.  A pump
\* whose context is done no longer enqueues.
PumpSend(b) ==
    /\ pump[b] = "sending"
    /\ ~Done
    /\ Len(outCh) < ChanCap
    /\ outCh' = Append(outCh, batch[b])
    /\ sent' = sent + 1
    /\ batch' = [batch EXCEPT ![b] = <<>>]
    /\ pump' = [pump EXCEPT ![b] = "reading"]
    /\ UNCHANGED <<ctx, pumpCtx, ring, allow, nEvents, dropped, sentAtCancel>>
    /\ UNCHANGED <<loadVars, utilVars, execVars, pinVars, constVars>>

\* The pump of bundle b sees its context done: reading or blocked on the
\* enqueue, it discards the batch it holds and exits.
PumpDone(b) ==
    /\ pump[b] \in {"reading", "sending"}
    /\ Done
    /\ batch' = [batch EXCEPT ![b] = <<>>]
    /\ pump' = [pump EXCEPT ![b] = "done"]
    /\ UNCHANGED <<ctx, pumpCtx, ring, outCh, sent, allow, nEvents, dropped,
                   sentAtCancel>>
    /\ UNCHANGED <<loadVars, utilVars, execVars, pinVars, constVars>>

\* The Span Consumer takes the oldest batch of the channel.
Consume ==
    /\ outCh # <<>>
    /\ outCh' = Tail(outCh)
    /\ UNCHANGED <<ctx, pumpCtx, pump, ring, batch, sent, allow, nEvents,
                   dropped, sentAtCancel>>
    /\ UNCHANGED <<loadVars, utilVars, execVars, pinVars, constVars>>

\* --------------------------------------------------------- ProcessTracer
\* The record of a call: the operation, its inode, the instrumenter it found
\* in pt.Instrumentables (0: none), whether it returned an error, the
\* handles it called Close on, the attachment calls it made, in order, and
\* the modules its uprobes calls skipped as already instrumented.
Call(op, ino, found, err, closed, calls, skipped) ==
    [op |-> op, ino |-> ino, found |-> found, err |-> err,
     closed |-> closed, calls |-> calls, skipped |-> skipped]

NoCall == Call("none", 0, 0, FALSE, <<>>, <<>>, {})

\* Run: assigns pt.log, starts one task per bundle of pt.Programs with the
\* context it was given, and returns.
Run ==
    /\ ~crashed
    /\ pc[PT] = "ready"
    /\ log = "nil"
    /\ log' = "set"
    /\ last' = Call("Run", 0, 0, FALSE, <<>>, <<>>, {})
    /\ pumpCtx' = PumpContext
    /\ pump' = [b \in Bundles |-> "reading"]
    /\ UNCHANGED <<loadVars, utilVars, crashed, Instrumentables, instr, nHandles,
                   closeCount, unlinkCalls, libs, modAttach, goTable>>
    /\ UNCHANGED <<pinVars, constVars>>
    /\ UNCHANGED <<ctx, ring, batch, outCh, sent, allow, nEvents, dropped,
                   sentAtCancel>>

\* NewExecutable: a fresh instrumenter, the attachment loop, and only when
\* no attachment failed the entry in pt.Instrumentables.
newExecutable(ino) ==
    /\ ~crashed
    /\ pc[PT] = "ready"
    /\ Len(instr) < MaxInstr
    /\ \E st \in attachAll(Working(<<>>, {}), 1) :
          /\ instr' = Append(instr,
                 [ino |-> ino, ok |-> ~st.err, closables |-> st.closables,
                  modules |-> st.modules, done |-> FALSE])
          /\ Instrumentables' = IF st.err
                                THEN Instrumentables
                                ELSE [Instrumentables EXCEPT ![ino] = Len(instr) + 1]
          /\ nHandles' = st.n
          /\ libs' = st.libs
          /\ modAttach' = st.attach
          /\ goTable' = st.table
          /\ last' = Call("NewExecutable", ino, Instrumentables[ino], st.err,
                          <<>>, st.calls, st.skipped)
    /\ UNCHANGED <<utilVars, log, crashed, closeCount, unlinkCalls, sideVars>>

\* A variant that loads the first bundle again for the new executable.
NewExecutableReloads(ino) ==
    /\ newExecutable(ino)
    /\ loadCalls' = [loadCalls EXCEPT ![1] = Append(@, loadSpec(IntegrityModeOverride, "ok"))]
    /\ assignLog' = [assignLog EXCEPT ![1] = Append(@, "ok")]
    /\ UNCHANGED <<IntegrityModeOverride, cfgVars, loadMux, pc, idx, postLoad, pinLog>>

\* No statement of NewExecutable touches the loaded collections.
NewExecutable(ino) ==
    /\ newExecutable(ino)
    /\ UNCHANGED loadVars

\* NewExecutableInstance: uprobes of every bundle on the inode's
\* instrumenter; for an unknown inode pt.log.Warn, which needs pt.log.
NewExecutableInstance(ino) ==
    /\ ~crashed
    /\ pc[PT] = "ready"
    /\ IF Instrumentables[ino] # 0
       THEN LET k == Instrumentables[ino]
            IN  \E st \in attachUprobes(Working(instr[k].closables, instr[k].modules), 1) :
                   /\ instr' = [instr EXCEPT ![k].closables = st.closables,
                                             ![k].modules = st.modules]
                   /\ nHandles' = st.n
                   /\ libs' = st.libs
                   /\ modAttach' = st.attach
                   /\ crashed' = crashed
                   /\ last' = Call("NewExecutableInstance", ino, k, st.err,
                                   <<>>, st.calls, st.skipped)
       ELSE /\ crashed' = (log = "nil")
            /\ last' = Call("NewExecutableInstance", ino, 0, FALSE, <<>>, <<>>, {})
            /\ UNCHANGED <<instr, nHandles, libs, modAttach>>
    /\ UNCHANGED <<loadVars, utilVars, log, Instrumentables, closeCount, unlinkCalls,
                   goTable, sideVars>>

\* A variant in which every handle made so far is closed, whichever
\* instrumenter holds it.
ClosedEveryHandle(cc, cs) ==
    [h \in Handles |-> IF h <= nHandles THEN cc[h] + 1 ELSE cc[h]]

\* Close called once more on each handle of the sequence cs.
Closed(cc, cs) ==
    [h \in Handles |-> cc[h] + Cardinality({j \in DOMAIN cs : cs[j] = h})]

\* The calls p.UnlinkInstrumentedLib(m) for every module of ms and every
\* bundle: the counts, and the bundles' records.
SignalCounts(uc, ms) ==
    [b \in Bundles |-> [m \in Modules |-> IF m \in ms THEN uc[b][m] + 1 ELSE uc[b][m]]]

SignalLibs(lb, ms) ==
    [b \in Bundles |-> UnlinkAll(lb, b, ms)[b]]

\* The attachments of the modules of ms go with the closables closed before
\* the bundles are told.
SignalAttach(ma, ms) ==
    [b \in Bundles |-> [m \in Modules |-> IF m \in ms THEN 0 ELSE ma[b][m]]]

\* The slice from its last element to its first.
ReverseOrder(cs) == [j \in DOMAIN cs |-> cs[Len(cs) + 1 - j]]

\* The order in which UnlinkExecutable calls Close: the order of the slice.
CloseOrder(cs) == cs

\* UnlinkExecutable, the inode found: Close on each closable, the first
\* failing Close being number failAt of the calls (0: none fails).  A
\* failing Close is logged through pt.log; with pt.log nil that call panics
\* and the rest of the function does not run.
unlinkFound(ino, k, failAt) ==
    LET cs == CloseOrder(instr[k].closables)
    IN  IF failAt # 0 /\ log = "nil"
        THEN /\ closeCount' = Closed(closeCount, SubSeq(cs, 1, failAt))
             /\ last' = Call("UnlinkExecutable", ino, k, FALSE,
                             SubSeq(cs, 1, failAt), <<>>, {})
             /\ crashed' = TRUE
             /\ UNCHANGED <<Instrumentables, instr, unlinkCalls, libs, modAttach>>
        ELSE /\ closeCount' = Closed(closeCount, cs)
             /\ last' = Call("UnlinkExecutable", ino, k, FALSE, cs, <<>>, {})
             /\ instr' = [instr EXCEPT ![k].done = TRUE]
             /\ unlinkCalls' = SignalCounts(unlinkCalls, instr[k].modules)
             /\ libs' = SignalLibs(libs, instr[k].modules)
             /\ modAttach' = SignalAttach(modAttach, instr[k].modules)
             /\ Instrumentables' = [Instrumentables EXCEPT ![ino] = 0]
             /\ crashed' = crashed

\* UnlinkExecutable, the inode not found: pt.log.Warn, which needs pt.log.
unlinkMissing(ino) ==
    /\ crashed' = (log = "nil")
    /\ last' = Call("UnlinkExecutable", ino, 0, FALSE, <<>>, <<>>, {})
    /\ UNCHANGED <<Instrumentables, instr, closeCount, unlinkCalls, libs, modAttach>>

UnlinkExecutable(ino) ==
    /\ ~crashed
    /\ pc[PT] = "ready"
    /\ IF Instrumentables[ino] # 0
       THEN \E failAt \in 0..Len(instr[Instrumentables[ino]].closables) :
               unlinkFound(ino, Instrumentables[ino], failAt)
       ELSE unlinkMissing(ino)
    /\ UNCHANGED <<loadVars, utilVars, log, nHandles, goTable, sideVars>>

\* ------------------------------------------------------------------ spec
vars == <<loadVars, utilVars, execVars, sideVars>>

\* Run has not been called: no pump, empty ring buffers and channel, empty
\* allow-set.
InitPumps ==
    /\ ctx = "live"
    /\ pumpCtx = "none"
    /\ pump = [b \in Bundles |-> "none"]
    /\ ring = [b \in Bundles |-> <<>>]
    /\ batch = [b \in Bundles |-> <<>>]
    /\ outCh = <<>>
    /\ sent = 0
    /\ allow = {}
    /\ nEvents = 0
    /\ dropped = {}
    /\ sentAtCancel = 0

InitTracer ==
    /\ IntegrityModeOverride = FALSE
    /\ BpfDebug \in BOOLEAN
    /\ SupportsContextPropagation \in BOOLEAN
    /\ loadMux = 0
    /\ pc = [t \in Tracers |-> "new"]
    /\ idx = [t \in Tracers |-> 1]
    /\ loadCalls = [b \in Bundles |-> <<>>]
    /\ assignLog = [b \in Bundles |-> <<>>]
    /\ postLoad = [b \in Bundles |-> <<>>]
    /\ utilPc = "idle"
    /\ utilLog = <<>>
    /\ log = "nil"
    /\ crashed = FALSE
    /\ Instrumentables = [i \in Inodes |-> 0]
    /\ instr = <<>>
    /\ nHandles = 0
    /\ closeCount = [h \in Handles |-> 0]
    /\ unlinkCalls = [b \in Bundles |-> [m \in Modules |-> 0]]
    /\ libs = [b \in Bundles |-> {}]
    /\ modAttach = [b \in Bundles |-> [m \in Modules |-> 0]]
    /\ goTable = NoTable
    /\ last = NoCall
    /\ pinLog = [b \in Bundles |-> <<>>]
    /\ InitPumps

\* The processes of the host, each with its configuration, before any of
\* them has made its ProcessTracer.
InitProcs ==
    /\ osPid \in PidAssignments
    /\ cfgEBPF \in [Procs -> Configs]
    /\ built = {}
    /\ PinPath = [o \in Procs |-> <<>>]

\* Every process has made its ProcessTracer, all from one configuration.
InitBuilt ==
    /\ osPid = CHOOSE f \in PidAssignments : TRUE
    /\ cfgEBPF = [o \in Procs |-> CHOOSE c \in Configs : c.BpfPath # <<>>]
    /\ built = Procs
    /\ PinPath = [o \in Procs |-> BuildPinPath(cfgEBPF[o], osPid[o])]

\* The provider gave every key; loadSpec has not run on them yet.
InitOffsets ==
    /\ Field = CHOOSE f \in FieldInputs : DOMAIN f = OffsetKeys
    /\ consts = <<>>
    /\ cpc = "start"

Init ==
    /\ InitTracer
    /\ InitBuilt
    /\ InitOffsets

\* The life of one ProcessTracer: Init, then executables coming and going.
Next ==
    \/ InitLock(PT)
    \/ LoadBundle(PT)
    \/ InitFinish(PT)
    \/ Run
    \/ \E ino \in Inodes : NewExecutable(ino)
    \/ \E ino \in Inodes : NewExecutableInstance(ino)
    \/ \E ino \in Inodes : UnlinkExecutable(ino)

Spec == Init /\ [][Next]_vars

\* Every tracer's Init and the utility tracer, side by side.
NextLoad ==
    \/ \E t \in Tracers : InitLock(t)
    \/ \E t \in Tracers : LoadBundle(t)
    \/ \E t \in Tracers : InitFinish(t)
    \/ UtilLoad
    \/ UtilLoadAndAssign
    \/ UtilAttach

SpecLoad == Init /\ [][NextLoad]_vars

\* Every Init call runs on a thread of its own that keeps running, and the
\* mutex goes to a caller waiting in Lock once it is free.
InitFairness ==
    \A t \in Tracers :
        /\ WF_vars(InitLock(t))
        /\ WF_vars(LoadBundle(t))
        /\ WF_vars(InitFinish(t))

SpecLoadFair == Init /\ [][NextLoad]_vars /\ InitFairness

\* The processes make their tracers, and the tracer of this process loads
\* its bundles.
InitPin ==
    /\ InitTracer
    /\ InitProcs
    /\ InitOffsets

NextPin ==
    \/ \E o \in Procs : NewProcessTracer(o)
    \/ InitLock(PT)
    \/ LoadBundle(PT)
    \/ InitFinish(PT)

SpecPin == InitPin /\ [][NextPin]_vars

\* loadSpec on the offsets of any provider.
InitConst ==
    /\ InitTracer
    /\ InitBuilt
    /\ Field \in FieldInputs
    /\ consts = <<>>
    /\ cpc = "start"

NextConst == loadSpecConstants

SpecConst == InitConst /\ [][NextConst]_vars

\* The tracer loads, Run starts the pumps, the kernel programs write events,
\* discovery allows and blocks pids, the consumer takes batches and the
\* caller cancels the context.
NextRun ==
    \/ InitLock(PT)
    \/ LoadBundle(PT)
    \/ InitFinish(PT)
    \/ Run
    \/ Cancel
    \/ \E pid \in TracedPids : AllowPID(pid)
    \/ \E pid \in TracedPids : BlockPID(pid)
    \/ \E b \in Bundles, pid \in TracedPids : KernelEvent(b, pid)
    \/ \E b \in Bundles : PumpRead(b)
    \/ \E b \in Bundles : PumpSend(b)
    \/ \E b \in Bundles : PumpDone(b)
    \/ Consume

\* Each pump is a task of its own: the scheduler runs a task that stays
\* runnable, so a pump whose context is done gets to see it.
PumpFairness == \A b \in Bundles : WF_vars(PumpDone(b))

SpecRun == Init /\ [][NextRun]_vars /\ PumpFairness

\* ---------------------------------------------------------------- claims
ClosablesOf(k) == {instr[k].closables[j] : j \in DOMAIN instr[k].closables}

\* The place of handle h in the sequence cs.
Pos(cs, h) == CHOOSE j \in DOMAIN cs : cs[j] = h

\* The verdicts of bundle b that are "ok".
Loaded(b) == {i \in DOMAIN assignLog[b] : assignLog[b][i] = "ok"}

\* C1: after UnlinkExecutable(inode), every closable of every instrumenter a
\* successful NewExecutable(inode) made has had Close called exactly once,
\* the inode is no key of Instrumentables, and every bundle has been told
\* UnlinkInstrumentedLib(m) once per unlinked instrumenter that recorded m.
UnlinkReleasesExecutable ==
    /\ \A h \in Handles : closeCount[h] <= 1
    /\ last.op = "UnlinkExecutable" =>
          /\ Instrumentables[last.ino] = 0
          /\ \A k \in Made :
                (instr[k].ok /\ instr[k].ino = last.ino) =>
                    /\ instr[k].done
                    /\ \A h \in ClosablesOf(k) : closeCount[h] = 1
    /\ \A b \in Bundles : \A m \in Modules :
          unlinkCalls[b][m] =
              Cardinality({k \in Made : instr[k].done /\ m \in instr[k].modules})

FailedNewExecutableIsReleased ==
    (last.op = "UnlinkExecutable" /\ ~crashed) =>
        \A k \in Made :
            (~instr[k].ok /\ instr[k].ino = last.ino) =>
                \A h \in ClosablesOf(k) : closeCount[h] >= 1

\* C4: UnlinkExecutable on an inode that is no key of Instrumentables closes
\* nothing and does not fail.
UnlinkUnknownIsNoOp ==
    (last.op = "UnlinkExecutable" /\ last.found = 0) =>
        (~crashed /\ last.closed = <<>>)

\* C5: at most one load is in progress: the tracers inside loadTracers and
\* the utility tracer inside LoadAndAssign are never two.
LoadsExclusive ==
    Cardinality({t \in Tracers : pc[t] = "loading"})
        + (IF utilPc = "loading" THEN 1 ELSE 0) <= 1

\* C6: a first verdict naming the missing helper sets the flag and is
\* followed by exactly one more loadSpec of the same bundle, under the flag;
\* nothing else is retried; after a successful retry Init goes on with the
\* bundle, after a failed one Init has returned an error; no bundle sees
\* more than two load attempts.
FallbackRetriesOnce ==
    \A b \in Bundles :
        /\ Len(loadCalls[b]) <= 2
        /\ Len(assignLog[b]) <= Len(loadCalls[b])
        /\ Len(loadCalls[b]) = 2 <=>
              (Len(assignLog[b]) >= 1 /\ assignLog[b][1] = "missing")
        /\ Len(loadCalls[b]) = 2 =>
              /\ IntegrityModeOverride
              /\ loadCalls[b][2].flag
              /\ IF assignLog[b] = <<"missing", "ok">>
                 THEN /\ postLoad[b] # <<>>
                      /\ postLoad[b][1] = "SetupTailCalls"
                 ELSE /\ pc[PT] = "failed"
                      /\ postLoad[b] = <<>>

\* C6 witness: Init went through with a bundle loaded on the retry.
FallbackTaken ==
    /\ pc[PT] = "ready"
    /\ \E b \in Bundles : assignLog[b] = <<"missing", "ok">>

\* C7: no bundle has two loadSpec calls made under the same value of the flag.
LoadOncePerFlagValue ==
    \A b \in Bundles : \A i, j \in DOMAIN loadCalls[b] :
        i # j => loadCalls[b][i].flag # loadCalls[b][j].flag

\* C8: every bundle is loaded at most once, exactly once when Init has
\* returned nil, and the calls on executables leave it so: they happen only
\* after Init, and after them each bundle still has its one successful
\* LoadAndAssign, the last of at most two attempts.
LoadedOncePerLifetime ==
    /\ \A b \in Bundles : Cardinality(Loaded(b)) <= 1
    /\ last.op # "none" => pc[PT] = "ready"
    /\ pc[PT] = "ready" =>
          \A b \in Bundles :
              /\ Loaded(b) = {Len(assignLog[b])}
              /\ Len(loadCalls[b]) = Len(assignLog[b])
              /\ Len(loadCalls[b]) <= 2

\* C8 witness: one executable has been unlinked, another is registered and
\* has just received a new instance.
ExecutablesCameAndWent ==
    /\ last.op = "NewExecutableInstance"
    /\ last.found # 0
    /\ \E k \in Made : instr[k].done

\* C9: no step takes the flag from true to false.
FlagMonotonic == [][IntegrityModeOverride => IntegrityModeOverride']_vars

\* C9 witness: the flag is set, Run has been called and an executable has
\* been unlinked.
FlagSetAndTracerUsed ==
    /\ IntegrityModeOverride
    /\ log = "set"
    /\ last.op = "UnlinkExecutable"
    /\ last.found # 0

\* C10: every Load picks one of the four artifacts, the debug ones exactly
\* under cfg.BpfDebug, and never a bpf_tp one under the flag; a GoProbes
\* table made under the flag has every base symbol and none of the three
\* context-propagation symbols.
ContextPropagationDisabled ==
    /\ \A b \in Bundles : \A i \in DOMAIN loadCalls[b] :
          LET c == loadCalls[b][i]
          IN  /\ c.art \in Artifacts
              /\ c.art \in {"bpf_debug", "bpf_tp_debug"} <=> BpfDebug
              /\ c.flag => c.art \notin TpArtifacts
              /\ c.art \in TpArtifacts => SupportsContextPropagation
    /\ goTable # NoTable =>
          /\ BaseGoProbes \subseteq goTable.syms
          /\ goTable.syms \subseteq BaseGoProbes \cup ContextPropagationProbes
          /\ goTable.flag => goTable.syms \cap ContextPropagationProbes = {}
          /\ goTable.syms \cap ContextPropagationProbes # {} =>
                (ContextPropagationProbes \subseteq goTable.syms
                 /\ SupportsContextPropagation)

\* C10 witness: on a kernel that supports context propagation, a bundle was
\* loaded under the flag and the Go probes were attached under it.
LoadedAndProbedUnderFlag ==
    /\ SupportsContextPropagation
    /\ goTable # NoTable
    /\ goTable.flag
    /\ \E b \in Bundles : \E i \in DOMAIN loadCalls[b] :
          loadCalls[b][i].flag /\ loadCalls[b][i].res = "ok"

\* The calls RunUtilityTracer makes when nothing fails, in the order of the code.
UtilSteps == <<"Load", "LoadAndAssign", "kprobes", "tracepoints", "Run", "FlushKernelSpec">>

\* Sequence s is the beginning of sequence t.
IsPrefix(s, t) == Len(s) <= Len(t) /\ s = SubSeq(t, 1, Len(s))

\* C11, the calls made: a bundle whose loadSpec failed, or whose
\* LoadAndAssign failed with another text than the missing helper, has had
\* one attempt and Init has returned the error; the steps after the load
\* are made at most once each; RunUtilityTracer makes each call at most once.
SingleAttempts ==
    /\ \A b \in Bundles :
          /\ (loadCalls[b] # <<>> /\ loadCalls[b][1].res # "ok") =>
                (Len(loadCalls[b]) = 1 /\ assignLog[b] = <<>> /\ pc[PT] = "failed")
          /\ (assignLog[b] # <<>> /\ assignLog[b][1] = "other") =>
                (Len(loadCalls[b]) = 1 /\ Len(assignLog[b]) = 1 /\ pc[PT] = "failed")
          /\ IsPrefix(postLoad[b], PostLoadSteps)
          /\ (postLoad[b] # <<>> /\ Len(postLoad[b]) < Len(PostLoadSteps)) =>
                pc[PT] = "failed"
    /\ IsPrefix(utilLog, UtilSteps)
    /\ utilPc = "failed" => Len(utilLog) < Len(UtilSteps)

\* C11, the flag: an Init that returns an error without having met the
\* missing helper leaves the flag as it was, and so does every step of
\* RunUtilityTracer.
FailureKeepsFlag ==
    /\ (pc[PT] = "loading" /\ pc'[PT] = "failed"
          /\ assignLog'[idx[PT]] \in {<<>>, <<"other">>, <<"ok">>})
        => IntegrityModeOverride' = IntegrityModeOverride
    /\ utilPc' # utilPc => IntegrityModeOverride' = IntegrityModeOverride

\* C11: the missing-helper fallback is the only retry: every other failure
\* of a load, a constant rewrite or an attachment is returned after a single
\* attempt and leaves the flag unchanged; RunUtilityTracer never retries.
OnlyFallbackRetries == [](SingleAttempts) /\ [][FailureKeepsFlag]_vars

\* C11 witness: with the flag already set by an earlier bundle, Init has
\* returned on a load failure of another kind, and RunUtilityTracer has
\* returned an error too.
FailedWithoutRetry ==
    /\ pc[PT] = "failed"
    /\ IntegrityModeOverride
    /\ \E b \in Bundles : assignLog[b] = <<"other">>
    /\ utilPc = "failed"

\* C12: a closable of the instrumenter stored under an inode is closed by no
\* step other than an UnlinkExecutable of that inode: it stays live through
\* NewExecutable and UnlinkExecutable of other inodes, NewExecutableInstance
\* (failing or not) and Run.
ClosablesLiveUntilUnlink ==
    [][\A ino \in Inodes :
          Instrumentables[ino] # 0 =>
              \A h \in ClosablesOf(Instrumentables[ino]) :
                  closeCount'[h] # closeCount[h] =>
                      (last'.op = "UnlinkExecutable" /\ last'.ino = ino)]_vars

\* C12 witness: an executable with handles has been unlinked while another
\* one is registered with handles, none of which has been closed.
OtherExecutableStillLive ==
    /\ last.op = "UnlinkExecutable"
    /\ last.closed # <<>>
    /\ \E ino \in Inodes :
          /\ ino # last.ino
          /\ Instrumentables[ino] # 0
          /\ ClosablesOf(Instrumentables[ino]) # {}
          /\ \A h \in ClosablesOf(Instrumentables[ino]) : closeCount[h] = 0

\* The handles of instrumenter k on which Close has not been called.
LiveHandles(k) == {h \in ClosablesOf(k) : closeCount[h] = 0}

\* C13: an instrumenter made by a successful NewExecutable that holds live
\* handles is the one stored under its inode in Instrumentables, so no inode
\* has two of them.
OneInstrumenterPerInode ==
    \A k \in Made :
        (instr[k].ok /\ LiveHandles(k) # {}) => Instrumentables[instr[k].ino] = k

\* C14: NewExecutableInstance on a registered inode calls uprobes, and
\* nothing else, for the bundles in order; on an inode that is no key of
\* Instrumentables it attaches nothing, returns no error and does not fail.
InstanceAttachesOnlyUprobes ==
    last.op = "NewExecutableInstance" =>
        IF last.found # 0
        THEN /\ Len(last.calls) <= NumBundles
             /\ \A j \in DOMAIN last.calls : last.calls[j] = <<j, "uprobes">>
             /\ ~last.err => Len(last.calls) = NumBundles
        ELSE /\ last.calls = <<>>
             /\ ~last.err
             /\ ~crashed

\* The entry of inode ino in Instrumentables and the instrumenter under it
\* are the same before and after the step.
EntryUnchanged(ino) ==
    /\ Instrumentables'[ino] = Instrumentables[ino]
    /\ Instrumentables[ino] # 0 =>
          instr'[Instrumentables[ino]] = instr[Instrumentables[ino]]

\* C15: a NewExecutable or NewExecutableInstance that returns an error
\* leaves the tracer running and ready, closes nothing and leaves the entries
\* of the other inodes as they were; a failed NewExecutable, which stores no
\* instrumenter, changes no entry at all and nothing of what the bundles
\* hold as instrumented, so that later calls meet what they would have met
\* without it.
FailedCallLeavesTracerAsItWas ==
    [][last'.err =>
          /\ ~crashed'
          /\ pc'[PT] = "ready"
          /\ closeCount' = closeCount
          /\ unlinkCalls' = unlinkCalls
          /\ \A ino \in Inodes : ino # last'.ino => EntryUnchanged(ino)
          /\ last'.op = "NewExecutable" =>
                /\ \A ino \in Inodes : EntryUnchanged(ino)
                /\ libs' = libs]_vars

PinPathUniquePerProcess ==
    /\ \A o, q \in built : o # q => PinPath[o] # PinPath[q]
    /\ \A b \in Bundles : \A j \in DOMAIN pinLog[b] :
          pinLog[b][j] = PinPath[ThisProcess]

\* C18: the map handed to RewriteConstants holds every key; a key of the
\* optional list the provider left out holds the all-ones 64-bit value, one
\* it gave holds the value given; and loadSpec succeeds only when every
\* required key was given, each then holding the value given.
ConstantsPopulated ==
    /\ \A j \in DOMAIN Sentinel : Sentinel[j] = 65535
    /\ Len(Sentinel) * 16 = 64
    /\ consts # <<>> =>
          /\ DOMAIN consts = {"wakeup_data_bytes"} \cup OffsetKeys
          /\ \A s \in OptionalKeys :
                consts[s] = IF s \in DOMAIN Field THEN Field[s] ELSE Sentinel
    /\ cpc = "ok" =>
          \A s \in RequiredKeys : s \in DOMAIN Field /\ consts[s] = Field[s]
    /\ (cpc # "start" /\ RequiredKeys \ DOMAIN Field # {}) => cpc \in {"spec", "rewrite"}

\* C18 witness: loadSpec succeeded on offsets that lack a key of the
\* optional list.
LoadedWithOptionalAbsent ==
    /\ cpc = "ok"
    /\ OptionalKeys \ DOMAIN Field # {}

\* C16: Run leaves one pump task per bundle behind it.  After the context
\* passed to Run is cancelled no batch is enqueued on the out-channel and no
\* pump adds an event to its batch, and every pump task eventually
\* terminates.
PumpsStarted == log = "set" => \A b \in Bundles : pump[b] # "none"

NoBatchAfterCancel == ctx = "cancelled" => sent = sentAtCancel

NoReadAfterCancel ==
    ctx = "cancelled" => \A b \in Bundles : Len(batch'[b]) <= Len(batch[b])

PumpsExited == \A b \in Bundles : pump[b] = "done"

Held ==
    UNION ({ {batch[b][j] : j \in DOMAIN batch[b]} : b \in Bundles } \cup
           { {outCh[i][j] : j \in DOMAIN outCh[i]} : i \in DOMAIN outCh })

LoadSucceeded(b) ==
    assignLog[b] # <<>> /\ assignLog[b][Len(assignLog[b])] = "ok"

\* The positions of step s among the steps made for bundle b.
StepsAt(b, s) == {j \in DOMAIN postLoad[b] : postLoad[b][j] = s}

\* C21: for every bundle, SetupTailCalls and then SetupTC are the first two
\* steps made once its kernel load has succeeded, each made exactly once and
\* so before every kprobe, tracepoint and socket filter of the bundle; no
\* step is made for a bundle whose load has not succeeded; and goprobes and
\* uprobes are attached only once every bundle has had its two setup calls.
SetupOnceAfterLoad ==
    /\ \A b \in Bundles :
          IF LoadSucceeded(b)
          THEN /\ StepsAt(b, "SetupTailCalls") = {1}
               /\ StepsAt(b, "SetupTC") = {2}
          ELSE postLoad[b] = <<>>
    /\ (nHandles > 0 \/ last.calls # <<>>) =>
          \A b \in Bundles : StepsAt(b, "SetupTailCalls") = {1} /\ StepsAt(b, "SetupTC") = {2}

\* C21 witness: Init stopped at a bundle whose load failed, after a bundle
\* that loaded only on the fallback retry and had all its steps made.
SetupAfterFallbackOnly ==
    /\ pc[PT] = "failed"
    /\ \E a, b \in Bundles :
          /\ assignLog[a] = <<"missing", "ok">>
          /\ Len(postLoad[a]) = Len(PostLoadSteps)
          /\ assignLog[b] = <<"other">>
          /\ postLoad[b] = <<>>

\* The attachments made for bundle b by Init, in the order they were made.
IsAttachment(s) == s \in {"kprobes", "tracepoints", "sockfilters"}

GlobalAttachments(b) == SelectSeq(postLoad[b], IsAttachment)

\* The attachment calls of a NewExecutable that fails nowhere: for each
\* bundle in the order of Programs, its goprobes and then its uprobes.
ExecutableOrder ==
    [j \in 1..(2 * NumBundles) |->
        <<(j + 1) \div 2, IF j % 2 = 1 THEN "goprobes" ELSE "uprobes">>]

\* C22: Init attaches a bundle's kprobes, then its tracepoints, then its
\* socket filters, and a bundle left with fewer than the three is the one
\* Init failed on; NewExecutable calls, bundle by bundle, goprobes and then
\* uprobes, and stops at the first call that fails, so that no uprobes call
\* follows a failed goprobes call.
AttachmentOrder ==
    /\ \A b \in Bundles :
          /\ IsPrefix(GlobalAttachments(b), <<"kprobes", "tracepoints", "sockfilters">>)
          /\ (LoadSucceeded(b) /\ Len(GlobalAttachments(b)) < 3) =>
                 (pc[PT] = "failed" /\ idx[PT] = b)
    /\ last.op = "NewExecutable" =>
          /\ IsPrefix(last.calls, ExecutableOrder)
          /\ Len(last.calls) < Len(ExecutableOrder) => last.err
          /\ ~last.err => Len(last.calls) = Len(ExecutableOrder)

\* C22 witness: every bundle has its three global attachments, and a
\* NewExecutable stopped at the failing goprobes call of the last bundle,
\* after the goprobes and uprobes calls of the bundles before it.
StoppedAtFailedGoprobes ==
    /\ \A b \in Bundles : Len(GlobalAttachments(b)) = 3
    /\ last.op = "NewExecutable"
    /\ last.err
    /\ Len(last.calls) = 2 * NumBundles - 1
    /\ last.calls[Len(last.calls)] = <<NumBundles, "goprobes">>

\* Bundle b is loaded and has had every step after the load.
FullyAttached(b) == LoadSucceeded(b) /\ Len(postLoad[b]) = Len(PostLoadSteps)

\* Nothing was done for bundle b.
Untouched(b) == loadCalls[b] = <<>> /\ assignLog[b] = <<>> /\ postLoad[b] = <<>>

InitStopsAtFailure ==
    /\ \A b \in Bundles :
          /\ (loadCalls[b] # <<>> /\ ~LoadSucceeded(b)) =>
                 (pc[PT] = "failed" /\ idx[PT] = b)
          /\ loadCalls[b] # <<>> => \A a \in 1..(b - 1) : FullyAttached(a)
    /\ pc[PT] = "failed" =>
          /\ \A a \in 1..(idx[PT] - 1) : FullyAttached(a)
          /\ \A b \in (idx[PT] + 1)..NumBundles : Untouched(b)

FailedInitIsFinal ==
    pc[PT] = "failed" =>
        /\ pc'[PT] = "failed"
        /\ idx'[PT] = idx[PT]
        /\ loadCalls' = loadCalls
        /\ assignLog' = assignLog
        /\ postLoad' = postLoad

\* C23: a bundle whose load fails is the one Init returns its error on; a
\* bundle is loaded only when every bundle before it is loaded and has all
\* its steps; once Init has failed on bundle k the bundles before k are
\* loaded with all their steps, the bundles after k are untouched, and none
\* of this changes any more.
InitErrorsAreFatal == [](InitStopsAtFailure) /\ [][FailedInitIsFinal]_vars

\* C23 witness: Init failed on an attachment of the first bundle, whose load
\* had succeeded, and the bundle after it is untouched while another tracer
\* has gone on to load.
FailedOnFirstBundle ==
    /\ pc[PT] = "failed"
    /\ idx[PT] = 1
    /\ LoadSucceeded(1)
    /\ ~FullyAttached(1)
    /\ Untouched(NumBundles)
    /\ \E t \in Tracers : t # PT /\ pc[t] = "ready"

\* Init of tracer t has returned, with nil or with an error.
Returned(t) == pc[t] \in {"ready", "failed"}

LockHeldOnlyWhileLoading ==
    /\ \A t \in Tracers : Returned(t) => loadMux # t
    /\ loadMux # 0 => pc[loadMux] = "loading"

\* C24: the load lock is held only by a tracer that is inside loadTracers,
\* never by one whose Init has returned, whichever way it returned; and
\* the Init of every tracer eventually returns.
LockReleasedOnEveryExit ==
    /\ [](LockHeldOnlyWhileLoading)
    /\ \A t \in Tracers : <>Returned(t)

\* C24 witness: a tracer holds the lock and has not loaded a bundle yet
\* while the Init of another tracer has failed, so the lock was taken after
\* the failed Init gave it up.
LockTakenAfterFailedInit ==
    \E t, u \in Tracers :
       /\ t # u
       /\ pc[t] = "failed"
       /\ pc[u] = "loading"
       /\ loadMux = u
       /\ idx[u] = 1

\* C25: an UnlinkExecutable that found the instrumenter of its inode has,
\* whether or not a Close returned an error, called Close on every closable
\* of the instrumenter, signalled every recorded module to every bundle and
\* removed the inode from Instrumentables.
FailingCloseDoesNotAbortUnlink ==
    (last.op = "UnlinkExecutable" /\ last.found # 0) =>
        /\ ClosablesOf(last.found) \subseteq
              {last.closed[j] : j \in DOMAIN last.closed}
        /\ \A b \in Bundles : \A m \in instr[last.found].modules :
              unlinkCalls[b][m] > 0
        /\ Instrumentables[last.ino] = 0

====
